---- MODULE Spec2Model ----
(***************************************************************************)
(* State-machine model of the Semtech SX9324 driver (src/sx9324.c).        *)
(*                                                                         *)
(* The driver's sysfs handlers run in calling threads; each step of a      *)
(* thread is one bus transaction (regmap_read, regmap_write,               *)
(* regmap_update_bits), one GPIO read, one mutex operation or one access   *)
(* to the shared phdata array, so that the interleavings of two threads    *)
(* are those the kernel can produce.  The chip is modelled as a register   *)
(* file plus the measurement words the data registers expose for the       *)
(* phase held by the phase-select register.                                *)
(***************************************************************************)
EXTENDS Integers, Sequences, FiniteSets, TLC

(***************************************************************************)
(* Bounds of the model.                                                    *)
(***************************************************************************)
\* concurrent reads of the phdata attribute: handler invocations and failing
\* bus transactions in one behaviour
MaxCalls == 2
MaxFaults == 1
\* the same with the registers attribute written concurrently
MaxStoreCalls == 3
MaxStoreFaults == 1
\* one thread using the mode and reset operations
MaxSeqCalls == 2
MaxSeqFaults == 2
\* the rails: calls of the two enable functions, failing regulator calls
MaxRailCalls == 3
MaxRailFaults == 2
\* fair scheduling of the phdata attribute: handler calls, failing transactions
MaxLiveCalls == 2
MaxLiveFaults == 1
\* resets with the interrupt armed: resets and interrupt edges
MaxResetIrqCalls == 3
\* the interrupt path: interrupt edges and removals, failing transactions
MaxIrqCalls == 3
MaxIrqFaults == 1

Threads == {1, 2}
Devs == {1, 2}
NoThread == 0

(***************************************************************************)
(* Register map (src/sx9324.c:34-135).                                     *)
(***************************************************************************)
SX9324_IRQ_SRC == 0
SX9324_STAT_0 == 1
SX9324_STAT_1 == 2
SX9324_STAT_2 == 3
SX9324_IRQ_MSK == 5
SX9324_GNRL_CTRL_0 == 16
SX9324_DOZEPERIOD == 96
SX9324_GNRL_CTRL_1 == 17
SX9324_PHEN == 15
SX9324_AFE_PH_0 == 40
SX9324_PHASE_SEL == 96
SX9324_USE_MSB == 97
SX9324_USE_LSB == 98
SX9324_AVG_MSB == 99
SX9324_AVG_LSB == 100
SX9324_DIFF_MSB == 101
SX9324_DIFF_LSB == 102
SX9324_RESET == 159
SX9324_PHASES == 4
REGISTER_UNSET_VALUE == 255
\* the place of the NIRQ line in an access log, outside the register addresses
NirqLine == 256

Phases == 0 .. (SX9324_PHASES - 1)

\* the registers whose content the model keeps
StoredRegs == {SX9324_IRQ_SRC, SX9324_STAT_0, SX9324_STAT_1, SX9324_STAT_2,
               SX9324_IRQ_MSK, SX9324_GNRL_CTRL_0, SX9324_GNRL_CTRL_1,
               SX9324_AFE_PH_0, SX9324_PHASE_SEL}
MeasRegs == {SX9324_USE_MSB, SX9324_USE_LSB, SX9324_AVG_MSB, SX9324_AVG_LSB,
             SX9324_DIFF_MSB, SX9324_DIFF_LSB}

\* errno values returned by a failing bus transaction
BusErrs == {-5}

(***************************************************************************)
(* Bit arithmetic on C unsigned and int values.                            *)
(***************************************************************************)
RECURSIVE BitAnd(_, _)
BitAnd(a, b) ==
    IF a = 0 \/ b = 0 THEN 0
    ELSE (a % 2) * (b % 2) + 2 * BitAnd(a \div 2, b \div 2)

RECURSIVE BitOr(_, _)
BitOr(a, b) ==
    IF a = 0 THEN b
    ELSE IF b = 0 THEN a
    ELSE (IF (a % 2) + (b % 2) > 0 THEN 1 ELSE 0) + 2 * BitOr(a \div 2, b \div 2)

\* (v >> n) & 0x01
Bit(v, n) == (v \div (2 ^ n)) % 2

\* error = ... written for error |= ...
OrErrAssign(a, b) == b

\* a | b on two C ints in two's complement (error |= ...); \div rounds down
\* and % is never negative, so halving walks the bits of a negative value
\* until only its sign extension, -1, is left
RECURSIVE OrErr(_, _)
OrErr(a, b) ==
    IF a = 0 THEN b
    ELSE IF b = 0 THEN a
    ELSE IF a = -1 \/ b = -1 THEN -1
    ELSE (IF (a % 2) + (b % 2) > 0 THEN 1 ELSE 0) + 2 * OrErr(a \div 2, b \div 2)

\* (msb << 8) | lsb without the cast
ToShortUnsigned(msb, lsb) == BitOr(msb * 256, lsb)

\* (short)((msb << 8) | lsb)
ToShort(msb, lsb) ==
    LET w == BitOr(msb * 256, lsb) % 65536
    IN  IF w >= 32768 THEN w - 65536 ELSE w

(***************************************************************************)
(* The chip.  The data registers expose the words of the phase selected    *)
(* by SX9324_PHASE_SEL; the words are fixed and distinct for every device, *)
(* phase and quantity (0 useful, 1 average, 2 difference), so that a       *)
(* stored value tells which phase was selected when it was read.           *)
(***************************************************************************)
ChipMsb(d, ph, q) == 128 * (ph % 2) + 32 * (d - 1) + 8 * ph + q + 1
ChipLsb(d, ph, q) == 16 * q + ph + 1

ChipRead(rf, d, reg) ==
    IF reg \in MeasRegs
    THEN LET ph == rf[SX9324_PHASE_SEL]
             q  == (reg - SX9324_USE_MSB) \div 2
         IN  IF ph \notin Phases THEN 0
             ELSE IF (reg - SX9324_USE_MSB) % 2 = 0
                  THEN ChipMsb(d, ph, q) ELSE ChipLsb(d, ph, q)
    ELSE rf[reg]

(***************************************************************************)
(* Compiled-in software defaults.                                          *)
(***************************************************************************)
sx9324_reg_defaults ==
    << [reg |-> SX9324_IRQ_MSK,     def |-> 96],
       [reg |-> SX9324_GNRL_CTRL_0, def |-> 69],
       [reg |-> SX9324_AFE_PH_0,    def |-> 41],
       [reg |-> SX9324_GNRL_CTRL_1, def |-> 33] >>

\* the register file after a successful probe: chip reset, defaults applied
ProbedRegs ==
    [r \in StoredRegs |->
        CASE r = SX9324_IRQ_MSK     -> 96
          [] r = SX9324_GNRL_CTRL_0 -> 69
          [] r = SX9324_AFE_PH_0    -> 41
          [] r = SX9324_GNRL_CTRL_1 -> 33
          [] r = SX9324_STAT_0      -> 17
          [] r = SX9324_STAT_1      -> 32
          [] r = SX9324_STAT_2      -> 2
          [] OTHER                  -> 0]

ZeroStat == [steady |-> 0, prox |-> 0, table |-> 0, body |-> 0, fail |-> 0, comp |-> 0]
ZeroPhase == [is_valid |-> FALSE, proxuseful |-> 0, proxavg |-> 0, proxdiff |-> 0,
              stat |-> ZeroStat]

(***************************************************************************)
(* State.                                                                  *)
(***************************************************************************)
VARIABLES
    regmap,                 \* [Devs -> [StoredRegs -> 0..255]]: chip registers
    nirq_gpio,              \* [Devs -> {0,1}]: level gpiod_get_value() returns
    phdata,                 \* [Devs -> [Phases -> sx9324_phase_data]]
    phdata_readback_lock,   \* the thread holding the mutex, or NoThread
    dumping_regs,           \* dumping_regs[0]
    th,                     \* [Threads -> locals of the running handler]
    mode_set,               \* [Devs -> mode of the last set_mode that returned 0, or NoMode]
    calls,                  \* handler invocations left
    faults,                 \* failing bus transactions left
    pullup_enabled,         \* [Devs -> BOOLEAN]: drv_data->pullup_enabled
    vdd_enabled,            \* [Devs -> BOOLEAN]: drv_data->vdd_enabled
    supply,                 \* [Devs -> [Rails -> BOOLEAN]]: what the regulators last did
    rail_log,               \* the calls of the two enable functions, in order
    workqueue,              \* [Devs -> the single-thread workqueue and its worker]
    nirq_work,              \* [Devs -> BOOLEAN]: the work item is pending
    nirq,                   \* [Devs -> the interrupt requested for the NIRQ line]
    chip                    \* [Devs -> how the chip drives the NIRQ line]

\* the state of the power rails and of the interrupt path
board == <<pullup_enabled, vdd_enabled, supply, rail_log, workqueue, nirq_work, nirq>>

\* the board and the chip on it
host == <<board, chip>>

vars == <<regmap, nirq_gpio, phdata, phdata_readback_lock, dumping_regs, th,
          mode_set, calls, faults, host>>

\* enum sx9324_operational_mode, and the value of a mode not yet assigned
SX9324_ACTIVE == 0
SX9324_DOZE == 1
SX9324_SLEEP == 2
NoMode == 9
Modes == {SX9324_ACTIVE, SX9324_DOZE, SX9324_SLEEP}

\* locals of an idle thread
IdleThread ==
    [pc |-> "idle", op |-> "none", dev |-> 1, arg |-> 0, val |-> 0, error |-> 0,
     i |-> 0, q |-> 0, stat0 |-> 0, stat1 |-> 0, stat2 |-> 0, msb |-> 0, lsb |-> 0,
     mode |-> NoMode, out |-> <<>>, log |-> <<>>]

\* outcomes of one bus transaction: 0, or an errno while faults are left
BusResults == {0} \cup (IF faults > 0 THEN BusErrs ELSE {})

Fault(r) == faults' = IF r = 0 THEN faults ELSE faults - 1

\* the access log of the running call: kind "r" read, "w" write, "u"
\* update_bits, "g" gpio read; r the errno; v the value read or written
Logged(t, kind, reg, r, v) ==
    Append(th[t].log, [k |-> kind, reg |-> reg, r |-> r, v |-> v])

\* the two regulators of a device
Rails == {"pullup", "vdd"}

\* the workqueue of a device: it exists from probe to destroy_workqueue;
\* execs holds the position of every execution of the worker in progress,
\* runs counts the executions started, log holds the worker's bus accesses
IdleQueue == [alive |-> TRUE, execs |-> <<>>, runs |-> 0, log |-> <<>>]

\* the interrupt of the NIRQ line: requested from probe until the device is
\* released; edges counts the handler's invocations, handled those it
\* reported as handled
ArmedIrq == [requested |-> TRUE, edges |-> 0, handled |-> 0]

\* a chip that may pull NIRQ low at any time and may or may not let it go
\* when the interrupt source register is read.  A responsive chip pulls the
\* line low when it was powered up or reset and lets it go when the register
\* is read; powerup holds from the power-up to the power-up reset, edge
\* while a falling edge of the line has not reached the handler
AnyChip == [responsive |-> FALSE, powerup |-> FALSE, edge |-> FALSE]

\* a device after a successful probe: both rails on, the worker idle
InitHost ==
    /\ pullup_enabled = [d \in Devs |-> TRUE]
    /\ vdd_enabled = [d \in Devs |-> TRUE]
    /\ supply = [d \in Devs |-> [r \in Rails |-> TRUE]]
    /\ rail_log = <<>>
    /\ workqueue = [d \in Devs |-> IdleQueue]
    /\ nirq_work = [d \in Devs |-> FALSE]
    /\ nirq = [d \in Devs |-> ArmedIrq]
    /\ chip = [d \in Devs |-> AnyChip]

InitCommon ==
    /\ InitHost
    /\ nirq_gpio = [d \in Devs |-> 1]
    /\ phdata = [d \in Devs |-> [p \in Phases |-> ZeroPhase]]
    /\ phdata_readback_lock = NoThread
    /\ dumping_regs = REGISTER_UNSET_VALUE
    /\ th = [t \in Threads |-> IdleThread]
    /\ mode_set = [d \in Devs |-> NoMode]

\* phase-enable registers the devices start with: no phase, phase 0, phases 0 and 1
InitEnables == {32, 33, 35}

Init ==
    /\ \E m \in [Devs -> InitEnables] :
          regmap = [d \in Devs |-> [ProbedRegs EXCEPT ![SX9324_GNRL_CTRL_1] = m[d]]]
    /\ InitCommon
    /\ calls = MaxCalls
    /\ faults = MaxFaults

(***************************************************************************)
(* Handler entry and exit.  A thread that is idle may enter a handler on   *)
(* any device; when the handler returns the thread is idle again.          *)
(***************************************************************************)
Enter(t, d, op, pc, arg) ==
    /\ th[t].pc = "idle"
    /\ calls > 0
    /\ calls' = calls - 1
    /\ th' = [th EXCEPT ![t] = [IdleThread EXCEPT !.pc = pc, !.op = op,
                                                  !.dev = d, !.arg = arg]]

\* the handler returns to its caller
Return(t) ==
    /\ th[t].pc = "ret"
    /\ th' = [th EXCEPT ![t] = IdleThread]
    /\ UNCHANGED <<host, regmap, nirq_gpio, phdata, phdata_readback_lock, dumping_regs,
                   mode_set, calls, faults>>

(***************************************************************************)
(* sx9324_read_phdata, src/sx9324.c:271-333.                               *)
(***************************************************************************)
\* mutex_lock left out: the caller proceeds whoever holds the lock
MutexNotTaken == TRUE

\* mutex_lock(&phdata_readback_lock) may proceed
MutexFree == phdata_readback_lock = NoThread

\* the test of line 295 left out: every phase is read
NextEnabledNoTest(val, from) ==
    IF from >= SX9324_PHASES THEN SX9324_PHASES ELSE from

\* the loop head of line 293 followed by the test of line 295: the first
\* enabled phase at or after `from`, or SX9324_PHASES
RECURSIVE NextEnabled(_, _)
NextEnabled(val, from) ==
    IF from >= SX9324_PHASES THEN SX9324_PHASES
    ELSE IF Bit(val, from) = 1 THEN from
    ELSE NextEnabled(val, from + 1)

\* the loop head without the test of error of line 293
LoopToIgnoringError(l, from, error) ==
    LET j == NextEnabled(l.val, from)
    IN  IF j >= SX9324_PHASES
        THEN [l EXCEPT !.pc = "rp_unlock", !.error = error]
        ELSE [l EXCEPT !.pc = "rp_sel", !.i = j, !.q = 0, !.error = error]

\* where the loop of lines 293-328 goes from index `from` with `error`
LoopTo(l, from, error) ==
    LET j == IF error # 0 THEN SX9324_PHASES ELSE NextEnabled(l.val, from)
    IN  IF j >= SX9324_PHASES
        THEN [l EXCEPT !.pc = "rp_unlock", !.error = error]
        ELSE [l EXCEPT !.pc = "rp_sel", !.i = j, !.q = 0, !.error = error]

\* sysfs read of the phdata attribute: sx9324_phdata_show calls read_phdata
PhdataShow_Enter(t) ==
    /\ \E d \in Devs : Enter(t, d, "phdata_show", "rp_inval", 0)
    /\ UNCHANGED <<host, regmap, nirq_gpio, phdata, phdata_readback_lock, dumping_regs,
                   mode_set, faults>>

\* lines 281-282, one entry per step
RP_Invalidate(t) ==
    LET l == th[t] IN
    /\ l.pc = "rp_inval"
    /\ phdata' = [phdata EXCEPT ![l.dev][l.i].is_valid = FALSE]
    /\ th' = [th EXCEPT ![t] = IF l.i + 1 < SX9324_PHASES
                               THEN [l EXCEPT !.i = l.i + 1]
                               ELSE [l EXCEPT !.i = 0, !.pc = "rp_en"]]
    /\ UNCHANGED <<host, regmap, nirq_gpio, phdata_readback_lock, dumping_regs,
                   mode_set, calls, faults>>

\* the failed enable read leaving through the unlock of line 330
AfterEnableReadUnlocks(r) == IF r = 0 THEN "rp_lock" ELSE "rp_unlock"

\* lines 285-286: if (error) return error, before the mutex is taken
AfterEnableRead(r) == IF r = 0 THEN "rp_lock" ELSE "rp_ret"

\* lines 284-286
RP_ReadEnable(t) ==
    LET l == th[t] IN
    /\ l.pc = "rp_en"
    /\ \E r \in BusResults :
          /\ Fault(r)
          /\ th' = [th EXCEPT ![t] =
                [l EXCEPT !.error = r,
                          !.val = IF r = 0 THEN ChipRead(regmap[l.dev], l.dev, SX9324_GNRL_CTRL_1)
                                  ELSE l.val,
                          !.log = Logged(t, "r", SX9324_GNRL_CTRL_1, r, 0),
                          !.pc = AfterEnableRead(r)]]
    /\ UNCHANGED <<host, regmap, nirq_gpio, phdata, phdata_readback_lock, dumping_regs,
                   mode_set, calls>>

\* lines 288-289
RP_Lock(t) ==
    LET l == th[t] IN
    /\ l.pc = "rp_lock"
    /\ MutexFree
    /\ phdata_readback_lock' = t
    /\ th' = [th EXCEPT ![t].pc = IF BitAnd(l.val, SX9324_PHEN) # 0
                                  THEN "rp_stat0" ELSE "rp_unlock"]
    /\ UNCHANGED <<host, regmap, nirq_gpio, phdata, dumping_regs, mode_set, calls, faults>>

\* line 290
RP_Stat0(t) ==
    LET l == th[t] IN
    /\ l.pc = "rp_stat0"
    /\ \E r \in BusResults :
          /\ Fault(r)
          /\ th' = [th EXCEPT ![t] =
                [l EXCEPT !.error = r,
                          !.stat0 = IF r = 0 THEN ChipRead(regmap[l.dev], l.dev, SX9324_STAT_0)
                                    ELSE l.stat0,
                          !.log = Logged(t, "r", SX9324_STAT_0, r, 0),
                          !.pc = "rp_stat1"]]
    /\ UNCHANGED <<host, regmap, nirq_gpio, phdata, phdata_readback_lock, dumping_regs,
                   mode_set, calls>>

\* line 291
RP_Stat1(t) ==
    LET l == th[t] IN
    /\ l.pc = "rp_stat1"
    /\ \E r \in BusResults :
          /\ Fault(r)
          /\ th' = [th EXCEPT ![t] =
                [l EXCEPT !.error = OrErr(l.error, r),
                          !.stat1 = IF r = 0 THEN ChipRead(regmap[l.dev], l.dev, SX9324_STAT_1)
                                    ELSE l.stat1,
                          !.log = Logged(t, "r", SX9324_STAT_1, r, 0),
                          !.pc = "rp_stat2"]]
    /\ UNCHANGED <<host, regmap, nirq_gpio, phdata, phdata_readback_lock, dumping_regs,
                   mode_set, calls>>

\* lines 292-295
RP_Stat2(t) ==
    LET l == th[t] IN
    /\ l.pc = "rp_stat2"
    /\ \E r \in BusResults :
          /\ Fault(r)
          /\ th' = [th EXCEPT ![t] =
                LoopTo([l EXCEPT !.stat2 = IF r = 0
                                           THEN ChipRead(regmap[l.dev], l.dev, SX9324_STAT_2)
                                           ELSE l.stat2,
                                 !.log = Logged(t, "r", SX9324_STAT_2, r, 0)],
                       0, OrErr(l.error, r))]
    /\ UNCHANGED <<host, regmap, nirq_gpio, phdata, phdata_readback_lock, dumping_regs,
                   mode_set, calls>>

\* lines 296-298
RP_Select(t) ==
    LET l == th[t] IN
    /\ l.pc = "rp_sel"
    /\ \E r \in BusResults :
          /\ Fault(r)
          /\ regmap' = IF r = 0
                       THEN [regmap EXCEPT ![l.dev][SX9324_PHASE_SEL] = l.i]
                       ELSE regmap
          /\ th' = [th EXCEPT ![t] =
                [l EXCEPT !.error = r,
                          !.log = Logged(t, "w", SX9324_PHASE_SEL, r, l.i),
                          !.pc = IF r = 0 THEN "rp_msb" ELSE "rp_unlock"]]
    /\ UNCHANGED <<host, nirq_gpio, phdata, phdata_readback_lock, dumping_regs, mode_set, calls>>

\* the data registers of quantity q: useful, average, difference
MsbReg(q) == SX9324_USE_MSB + 2 * q
LsbReg(q) == SX9324_USE_LSB + 2 * q

\* lines 300, 307, 313
RP_ReadMsb(t) ==
    LET l == th[t] IN
    /\ l.pc = "rp_msb"
    /\ \E r \in BusResults :
          /\ Fault(r)
          /\ th' = [th EXCEPT ![t] =
                [l EXCEPT !.error = r,
                          !.msb = IF r = 0 THEN ChipRead(regmap[l.dev], l.dev, MsbReg(l.q))
                                  ELSE l.msb,
                          !.log = Logged(t, "r", MsbReg(l.q), r, 0),
                          !.pc = "rp_lsb"]]
    /\ UNCHANGED <<host, regmap, nirq_gpio, phdata, phdata_readback_lock, dumping_regs,
                   mode_set, calls>>

\* the two flags of every register taken from each other's bit
DecodeStatSwapped(stat0, stat1, stat2, i) ==
    [steady |-> Bit(stat0, i),
     prox   |-> Bit(stat0, i + 4),
     table  |-> Bit(stat1, i),
     body   |-> Bit(stat1, i + 4),
     fail   |-> Bit(stat2, i),
     comp   |-> Bit(stat2, i + 4)]

\* lines 319-324
DecodeStat(stat0, stat1, stat2, i) ==
    [steady |-> Bit(stat0, i + 4),
     prox   |-> Bit(stat0, i),
     table  |-> Bit(stat1, i + 4),
     body   |-> Bit(stat1, i),
     fail   |-> Bit(stat2, i + 4),
     comp   |-> Bit(stat2, i)]

\* the stores of lines 305, 311 and 317, and of lines 319-326 after the last
StoreQuantity(e, l, lsb) ==
    LET v == ToShort(l.msb, lsb)
    IN  CASE l.q = 0 -> [e EXCEPT !.proxuseful = v]
          [] l.q = 1 -> [e EXCEPT !.proxavg = v]
          [] OTHER   ->
               [e EXCEPT !.proxdiff = v,
                         !.stat = DecodeStat(l.stat0, l.stat1, l.stat2, l.i),
                         !.is_valid = TRUE]

\* the store alone, for a call that has read the two bytes of a quantity
\* without error
RP_Store(t) ==
    LET l == th[t] IN
    /\ l.pc = "rp_store"
    /\ phdata' = [phdata EXCEPT ![l.dev][l.i] = StoreQuantity(@, l, l.lsb)]
    /\ th' = [th EXCEPT ![t].pc = "rp_stored"]
    /\ UNCHANGED <<host, regmap, nirq_gpio, phdata_readback_lock, dumping_regs,
                   mode_set, calls, faults>>

\* lines 301-305, 308-311, 314-326
RP_ReadLsb(t) ==
    LET l == th[t] IN
    /\ l.pc = "rp_lsb"
    /\ \E r \in BusResults :
          LET error == OrErr(l.error, r)
              lsb   == IF r = 0 THEN ChipRead(regmap[l.dev], l.dev, LsbReg(l.q))
                       ELSE l.lsb
              l1    == [l EXCEPT !.error = error, !.lsb = lsb,
                                 !.log = Logged(t, "r", LsbReg(l.q), r, 0)]
          IN  /\ Fault(r)
              /\ phdata' = IF error = 0
                           THEN [phdata EXCEPT ![l.dev][l.i] = StoreQuantity(@, l, lsb)]
                           ELSE phdata
              /\ th' = [th EXCEPT ![t] =
                    IF error # 0 THEN [l1 EXCEPT !.pc = "rp_unlock"]
                    ELSE IF l.q < 2 THEN [l1 EXCEPT !.q = l.q + 1, !.pc = "rp_msb"]
                    ELSE LoopTo(l1, l.i + 1, error)]
    /\ UNCHANGED <<host, regmap, nirq_gpio, phdata_readback_lock, dumping_regs, mode_set, calls>>

\* lines 330-332
RP_Unlock(t) ==
    /\ th[t].pc = "rp_unlock"
    /\ phdata_readback_lock' = NoThread
    /\ th' = [th EXCEPT ![t].pc = "rp_ret"]
    /\ UNCHANGED <<host, regmap, nirq_gpio, phdata, dumping_regs, mode_set, calls, faults>>

(***************************************************************************)
(* sx9324_phdata_show, src/sx9324.c:616-641: after read_phdata returned    *)
(* without error the handler prints the valid entries, one per step.       *)
(***************************************************************************)
PS_AfterRead(t) ==
    LET l == th[t] IN
    /\ l.pc = "rp_ret"
    /\ th' = [th EXCEPT ![t] = IF l.error = 0
                               THEN [l EXCEPT !.pc = "ps_print", !.i = 0]
                               ELSE [l EXCEPT !.pc = "ret"]]
    /\ UNCHANGED <<host, regmap, nirq_gpio, phdata, phdata_readback_lock, dumping_regs,
                   mode_set, calls, faults>>

PS_Print(t) ==
    LET l == th[t]
        e == phdata[l.dev][l.i]
        out == IF e.is_valid THEN Append(l.out, [ph |-> l.i, data |-> e]) ELSE l.out
    IN
    /\ l.pc = "ps_print"
    /\ th' = [th EXCEPT ![t] = IF l.i + 1 < SX9324_PHASES
                               THEN [l EXCEPT !.out = out, !.i = l.i + 1]
                               ELSE [l EXCEPT !.out = out, !.pc = "ret"]]
    /\ UNCHANGED <<host, regmap, nirq_gpio, phdata, phdata_readback_lock, dumping_regs,
                   mode_set, calls, faults>>

(***************************************************************************)
(* sx9324_registers_store, src/sx9324.c:521-607, for an input of one       *)
(* argument "reg" or "reg=value".                                          *)
(***************************************************************************)
\* registers and values the management interface is given
StoreRegs == {SX9324_GNRL_CTRL_1, SX9324_PHASE_SEL}
StoreVals(reg) == IF reg = SX9324_PHASE_SEL THEN {0, 1} ELSE {0, 1, 3}

\* sx9324_writeable_reg, for the registers of the model
sx9324_writeable_reg(reg) ==
    reg \in {SX9324_IRQ_MSK, SX9324_GNRL_CTRL_0, SX9324_GNRL_CTRL_1,
             SX9324_PHASE_SEL, SX9324_RESET}

RegistersStore_Enter(t) ==
    /\ \E d \in Devs, reg \in StoreRegs :
          \E v \in StoreVals(reg) :
             Enter(t, d, "registers_store", "st_write", [reg |-> reg, value |-> v])
    /\ UNCHANGED <<host, regmap, nirq_gpio, phdata, phdata_readback_lock, dumping_regs,
                   mode_set, faults>>

\* lines 586-601
ST_Write(t) ==
    LET l == th[t] IN
    /\ l.pc = "st_write"
    /\ dumping_regs' = l.arg.reg
    /\ \E r \in IF sx9324_writeable_reg(l.arg.reg) THEN BusResults ELSE BusErrs :
          /\ Fault(r)
          /\ regmap' = IF r = 0 /\ l.arg.reg \in StoredRegs
                       THEN [regmap EXCEPT ![l.dev][l.arg.reg] = l.arg.value]
                       ELSE regmap
          /\ th' = [th EXCEPT ![t] =
                [l EXCEPT !.error = r, !.log = Logged(t, "w", l.arg.reg, r, l.arg.value),
                          !.pc = "ret"]]
    /\ mode_set' = [mode_set EXCEPT ![l.dev] = NoMode]
    /\ UNCHANGED <<host, nirq_gpio, phdata, phdata_readback_lock, calls>>

(***************************************************************************)
(* sx9324_get_software_default, src/sx9324.c:237-250.                      *)
(***************************************************************************)
RECURSIVE DefaultFrom(_, _)
DefaultFrom(reg, i) ==
    IF i > Len(sx9324_reg_defaults) THEN [found |-> FALSE, val |-> 0]
    ELSE IF sx9324_reg_defaults[i].reg = reg
         THEN [found |-> TRUE, val |-> sx9324_reg_defaults[i].def]
         ELSE DefaultFrom(reg, i + 1)

sx9324_get_software_default(reg) == DefaultFrom(reg, 1)

\* regmap_write in the place of regmap_update_bits: the whole register set
UpdateBitsWhole(orig, mask, val) == val

\* regmap_update_bits: the register with the bits of mask replaced by val's
UpdateBits(orig, mask, val) ==
    BitOr(BitAnd(orig, 255 - mask), BitAnd(val, mask))

(***************************************************************************)
(* sx9324_set_mode, src/sx9324.c:361-396.                                  *)
(***************************************************************************)
EINVAL == 22
ENODEV == 19

\* the default arm left out: an unknown mode falls into the sleep arm
SetModeCaseNoDefault(mode) ==
    IF mode \in {SX9324_ACTIVE, SX9324_DOZE} THEN "active_doze" ELSE "sleep"

\* the arm of the switch of line 369 taken for `mode`
SetModeCase(mode) ==
    IF mode \in {SX9324_ACTIVE, SX9324_DOZE} THEN "active_doze"
    ELSE IF mode = SX9324_SLEEP THEN "sleep"
    ELSE "default"

\* lines 372-375 and 387-388: the value given for the phase-enable field
PhenValue(mode) ==
    IF SetModeCase(mode) = "sleep" THEN 0
    ELSE LET d == sx9324_get_software_default(SX9324_GNRL_CTRL_1)
         IN  IF d.found THEN d.val ELSE 15

\* the doze period never given: the else arm of line 379 left out
DozeValueNone(mode) == 0

\* lines 376-384: the value given for the doze-period field
DozeValue(mode) ==
    IF mode = SX9324_ACTIVE THEN 0
    ELSE LET d == sx9324_get_software_default(SX9324_GNRL_CTRL_0)
         IN  IF d.found THEN d.val ELSE 64

\* values a caller may pass as mode: the three modes and one that is none
ModeArgs == Modes \cup {3}

SetMode_Enter(t) ==
    /\ \E d \in Devs, mode \in ModeArgs : Enter(t, d, "set_mode", "sm_first", mode)
    /\ UNCHANGED <<host, regmap, nirq_gpio, phdata, phdata_readback_lock, dumping_regs,
                   mode_set, faults>>

\* lines 369-375 and 386-392
SM_First(t) ==
    LET l == th[t] IN
    /\ l.pc = "sm_first"
    /\ mode_set' = [mode_set EXCEPT ![l.dev] = NoMode]
    /\ IF SetModeCase(l.arg) = "default"
       THEN /\ th' = [th EXCEPT ![t] = [l EXCEPT !.error = -EINVAL, !.pc = "sm_ret"]]
            /\ UNCHANGED <<host, regmap, faults>>
       ELSE \E r \in BusResults :
               /\ Fault(r)
               /\ regmap' = IF r = 0
                            THEN [regmap EXCEPT ![l.dev][SX9324_GNRL_CTRL_1] =
                                     UpdateBits(@, SX9324_PHEN, PhenValue(l.arg))]
                            ELSE regmap
               /\ th' = [th EXCEPT ![t] =
                     [l EXCEPT !.error = r,
                               !.val = PhenValue(l.arg),
                               !.log = Logged(t, "u", SX9324_GNRL_CTRL_1, r, PhenValue(l.arg)),
                               !.pc = IF SetModeCase(l.arg) = "sleep"
                                      THEN "sm_ret" ELSE "sm_second"]]
    /\ UNCHANGED <<host, nirq_gpio, phdata, phdata_readback_lock, dumping_regs, calls>>

\* lines 376-385
SM_Second(t) ==
    LET l == th[t] IN
    /\ l.pc = "sm_second"
    /\ \E r \in BusResults :
          /\ Fault(r)
          /\ regmap' = IF r = 0
                       THEN [regmap EXCEPT ![l.dev][SX9324_GNRL_CTRL_0] =
                                UpdateBits(@, SX9324_DOZEPERIOD, DozeValue(l.arg))]
                       ELSE regmap
          /\ th' = [th EXCEPT ![t] =
                [l EXCEPT !.error = OrErr(l.error, r),
                          !.val = DozeValue(l.arg),
                          !.log = Logged(t, "u", SX9324_GNRL_CTRL_0, r, DozeValue(l.arg)),
                          !.pc = "sm_ret"]]
    /\ UNCHANGED <<host, nirq_gpio, phdata, phdata_readback_lock, dumping_regs, mode_set,
                   calls>>

\* line 395; the caller, sx9324_mode_store, drops the result
SM_Return(t) ==
    LET l == th[t] IN
    /\ l.pc = "sm_ret"
    /\ mode_set' = [mode_set EXCEPT ![l.dev] = IF l.error = 0 THEN l.arg ELSE NoMode]
    /\ th' = [th EXCEPT ![t].pc = "ret"]
    /\ UNCHANGED <<host, regmap, nirq_gpio, phdata, phdata_readback_lock, dumping_regs,
                   calls, faults>>

(***************************************************************************)
(* sx9324_get_mode, src/sx9324.c:335-359, called by sx9324_mode_show.      *)
(***************************************************************************)
\* lines 348-351
ModeOfDoze(val) ==
    IF BitAnd(val, SX9324_DOZEPERIOD) # 0 THEN SX9324_DOZE ELSE SX9324_ACTIVE

GetMode_Enter(t) ==
    /\ \E d \in Devs : Enter(t, d, "get_mode", "gm_first", 0)
    /\ UNCHANGED <<host, regmap, nirq_gpio, phdata, phdata_readback_lock, dumping_regs,
                   mode_set, faults>>

\* lines 343-345 and 353-355
GM_First(t) ==
    LET l == th[t] IN
    /\ l.pc = "gm_first"
    /\ \E r \in BusResults :
          LET val == ChipRead(regmap[l.dev], l.dev, SX9324_GNRL_CTRL_1) IN
          /\ Fault(r)
          /\ th' = [th EXCEPT ![t] =
                IF r # 0
                THEN [l EXCEPT !.error = r, !.pc = "gm_ret",
                               !.log = Logged(t, "r", SX9324_GNRL_CTRL_1, r, 0)]
                ELSE [l EXCEPT !.error = r, !.val = val,
                               !.log = Logged(t, "r", SX9324_GNRL_CTRL_1, r, val),
                               !.mode = IF BitAnd(val, SX9324_PHEN) # 0
                                        THEN l.mode ELSE SX9324_SLEEP,
                               !.pc = IF BitAnd(val, SX9324_PHEN) # 0
                                      THEN "gm_second" ELSE "gm_ret"]]
    /\ UNCHANGED <<host, regmap, nirq_gpio, phdata, phdata_readback_lock, dumping_regs,
                   mode_set, calls>>

\* lines 346-352
GM_Second(t) ==
    LET l == th[t] IN
    /\ l.pc = "gm_second"
    /\ \E r \in BusResults :
          LET val == ChipRead(regmap[l.dev], l.dev, SX9324_GNRL_CTRL_0) IN
          /\ Fault(r)
          /\ th' = [th EXCEPT ![t] =
                [l EXCEPT !.error = r,
                          !.val = IF r = 0 THEN val ELSE l.val,
                          !.log = Logged(t, "r", SX9324_GNRL_CTRL_0, r, IF r = 0 THEN val ELSE 0),
                          !.mode = IF r = 0 THEN ModeOfDoze(val) ELSE l.mode,
                          !.pc = "gm_ret"]]
    /\ UNCHANGED <<host, regmap, nirq_gpio, phdata, phdata_readback_lock, dumping_regs,
                   mode_set, calls>>

\* line 358; sx9324_mode_show prints the mode when error is 0
GM_Return(t) ==
    /\ th[t].pc = "gm_ret"
    /\ th' = [th EXCEPT ![t].pc = "ret"]
    /\ UNCHANGED <<host, regmap, nirq_gpio, phdata, phdata_readback_lock, dumping_regs,
                   mode_set, calls, faults>>

(***************************************************************************)
(* sx9324_reset, src/sx9324.c:398-434.  nirq_gpio holds what               *)
(* gpiod_get_value() returns for the NIRQ line: 0 is the line low, which   *)
(* for this active-low line is the interrupt asserted, 1 is the line high. *)
(* The chip may pull the line low at any time and lets it go when the      *)
(* interrupt source register is read, unless it has a new event or does    *)
(* not respond.                                                            *)
(***************************************************************************)
POWER_UP_RESET == 0
SOFTWARE_RESET == 1
ResetCommand == 222

\* the test of line 416 inverted
LineReadyHigh(v) == v = 1

\* line 416: the level at which the status is read and cleared
LineReady(v) == v = 0

\* the test of line 423 left out
LineReleasedAny(v) == TRUE

\* line 423: the level at which the reset succeeded
LineReleased(v) == v = 1

\* the levels of NIRQ after the chip took a reset command
LineAfterReset(d) == IF chip[d].responsive THEN {0} ELSE {0, nirq_gpio[d]}

\* the levels of NIRQ after the interrupt source register was read
LineAfterRead(d) == IF chip[d].responsive THEN {1} ELSE {1, nirq_gpio[d]}

\* the chip pulls NIRQ low
Chip_Assert(d) ==
    /\ nirq_gpio[d] = 1
    /\ nirq_gpio' = [nirq_gpio EXCEPT ![d] = 0]
    /\ UNCHANGED <<host, regmap, phdata, phdata_readback_lock, dumping_regs, th,
                   mode_set, calls, faults>>

\* sx9324_reset_show passes SOFTWARE_RESET, sx9324_probe POWER_UP_RESET
Reset_Enter(t) ==
    /\ \E d \in Devs, src \in {POWER_UP_RESET, SOFTWARE_RESET} :
          Enter(t, d, "reset", IF src = SOFTWARE_RESET THEN "rs_cmd" ELSE "rs_gpio1", src)
    /\ UNCHANGED <<host, regmap, nirq_gpio, phdata, phdata_readback_lock, dumping_regs,
                   mode_set, faults>>

\* sx9324_probe, line 831, on a chip that was powered up by lines 822-823
PowerUpReset_Enter(t) ==
    /\ \E d \in Devs :
          /\ chip[d].powerup
          /\ chip' = [chip EXCEPT ![d].powerup = FALSE]
          /\ Enter(t, d, "reset", "rs_gpio1", POWER_UP_RESET)
    /\ UNCHANGED <<board, regmap, nirq_gpio, phdata, phdata_readback_lock, dumping_regs,
                   mode_set, faults>>

\* sx9324_reset_show, line 612, on a device that was probed
SoftwareReset_Enter(t) ==
    /\ \E d \in Devs :
          /\ ~chip[d].powerup
          /\ Enter(t, d, "reset", "rs_cmd", SOFTWARE_RESET)
    /\ UNCHANGED <<host, regmap, nirq_gpio, phdata, phdata_readback_lock, dumping_regs,
                   mode_set, faults>>

\* lines 408-414; a chip that takes the command may pull NIRQ low
RS_Command(t) ==
    LET l == th[t] IN
    /\ l.pc = "rs_cmd"
    /\ \E r \in BusResults :
          /\ Fault(r)
          /\ \E v \in (IF r = 0 THEN LineAfterReset(l.dev) ELSE {nirq_gpio[l.dev]}) :
                /\ nirq_gpio' = [nirq_gpio EXCEPT ![l.dev] = v]
                /\ chip' = [chip EXCEPT ![l.dev].edge =
                               @ \/ (chip[l.dev].responsive /\ nirq_gpio[l.dev] = 1 /\ v = 0)]
          /\ th' = [th EXCEPT ![t] =
                [l EXCEPT !.error = r,
                          !.log = Logged(t, "w", SX9324_RESET, r, ResetCommand),
                          !.pc = IF r = 0 THEN "rs_gpio1" ELSE "rs_ret"]]
    /\ mode_set' = [mode_set EXCEPT ![l.dev] = NoMode]
    /\ UNCHANGED <<board, regmap, phdata, phdata_readback_lock, dumping_regs, calls>>

\* lines 416 and 428-430
RS_Gpio1(t) ==
    LET l == th[t]
        v == nirq_gpio[l.dev]
    IN
    /\ l.pc = "rs_gpio1"
    /\ th' = [th EXCEPT ![t] =
          [l EXCEPT !.log = Logged(t, "g", NirqLine, 0, v),
                    !.error = IF LineReady(v) THEN l.error ELSE -ENODEV,
                    !.pc = IF LineReady(v) THEN "rs_irq" ELSE "rs_ret"]]
    /\ UNCHANGED <<host, regmap, nirq_gpio, phdata, phdata_readback_lock, dumping_regs,
                   mode_set, calls, faults>>

\* lines 418-422; the read lets the chip release NIRQ
RS_IrqSrc(t) ==
    LET l == th[t] IN
    /\ l.pc = "rs_irq"
    /\ \E r \in BusResults :
          /\ Fault(r)
          /\ \E v \in (IF r = 0 THEN LineAfterRead(l.dev) ELSE {nirq_gpio[l.dev]}) :
                nirq_gpio' = [nirq_gpio EXCEPT ![l.dev] = v]
          /\ th' = [th EXCEPT ![t] =
                [l EXCEPT !.error = r,
                          !.val = IF r = 0 THEN ChipRead(regmap[l.dev], l.dev, SX9324_IRQ_SRC)
                                  ELSE l.val,
                          !.log = Logged(t, "r", SX9324_IRQ_SRC, r, 0),
                          !.pc = IF r = 0 THEN "rs_gpio2" ELSE "rs_ret"]]
    /\ UNCHANGED <<host, regmap, phdata, phdata_readback_lock, dumping_regs, mode_set,
                   calls>>

\* lines 423-426 and 433
RS_Gpio2(t) ==
    LET l == th[t]
        v == nirq_gpio[l.dev]
    IN
    /\ l.pc = "rs_gpio2"
    /\ th' = [th EXCEPT ![t] =
          [l EXCEPT !.log = Logged(t, "g", NirqLine, 0, v),
                    !.error = IF LineReleased(v) THEN 0 ELSE -ENODEV,
                    !.pc = "rs_ret"]]
    /\ UNCHANGED <<host, regmap, nirq_gpio, phdata, phdata_readback_lock, dumping_regs,
                   mode_set, calls, faults>>

\* the return of sx9324_reset to its caller
RS_Return(t) ==
    /\ th[t].pc = "rs_ret"
    /\ th' = [th EXCEPT ![t].pc = "ret"]
    /\ UNCHANGED <<host, regmap, nirq_gpio, phdata, phdata_readback_lock, dumping_regs,
                   mode_set, calls, faults>>

(***************************************************************************)
(* sx9324_enable_pullup and sx9324_enable_vdd, src/sx9324.c:203-235.  The  *)
(* two functions have the same body on their own regulator and their own   *)
(* shadow flag.  supply is what the regulator framework last did for a     *)
(* rail; rail_log keeps one record for every call.                         *)
(***************************************************************************)
\* the shadow flag of a rail
Shadow(d, rail) == IF rail = "pullup" THEN pullup_enabled[d] ELSE vdd_enabled[d]

\* the test of lines 209 and 226 left out
NeedsSwitchAlways(cur, enable) == TRUE

\* lines 209, 226: if (drv_data->..._enabled != enable)
NeedsSwitch(cur, enable) == cur # enable

\* the shadow flag assigned whatever the regulator returned
ShadowAfterAlways(cur, enable, error) == enable

\* lines 214-215, 231-232: if (!error) drv_data->..._enabled = enable
ShadowAfter(cur, enable, error) == IF error = 0 THEN enable ELSE cur

\* one call on the rail of device d; r is what the regulator returns when
\* it is called
EnableRail(d, rail, enable, r) ==
    LET cur    == Shadow(d, rail)
        called == NeedsSwitch(cur, enable)
        error  == IF called THEN r ELSE 0
        after  == IF called THEN ShadowAfter(cur, enable, error) ELSE cur
    IN
    /\ called \/ r = 0
    /\ Fault(error)
    /\ pullup_enabled' = IF rail = "pullup"
                         THEN [pullup_enabled EXCEPT ![d] = after]
                         ELSE pullup_enabled
    /\ vdd_enabled' = IF rail = "vdd"
                      THEN [vdd_enabled EXCEPT ![d] = after]
                      ELSE vdd_enabled
    /\ supply' = IF called /\ error = 0
                 THEN [supply EXCEPT ![d][rail] = enable]
                 ELSE supply
    /\ rail_log' = Append(rail_log,
                          [dev |-> d, rail |-> rail, on |-> enable, before |-> cur,
                           called |-> called, error |-> error, after |-> after])

\* lines 203-218
sx9324_enable_pullup(d, enable, r) == EnableRail(d, "pullup", enable, r)

\* lines 220-235
sx9324_enable_vdd(d, enable, r) == EnableRail(d, "vdd", enable, r)

\* a caller switches the pull-up rail of a device
Pullup_Call ==
    /\ calls > 0
    /\ calls' = calls - 1
    /\ \E d \in Devs, enable \in BOOLEAN, r \in BusResults :
          sx9324_enable_pullup(d, enable, r)
    /\ UNCHANGED <<regmap, nirq_gpio, phdata, phdata_readback_lock, dumping_regs, th,
                   mode_set, workqueue, nirq_work, nirq, chip>>

\* a caller switches the supply rail of a device
Vdd_Call ==
    /\ calls > 0
    /\ calls' = calls - 1
    /\ \E d \in Devs, enable \in BOOLEAN, r \in BusResults :
          sx9324_enable_vdd(d, enable, r)
    /\ UNCHANGED <<regmap, nirq_gpio, phdata, phdata_readback_lock, dumping_regs, th,
                   mode_set, workqueue, nirq_work, nirq, chip>>

(***************************************************************************)
(* sx9324_reset_software_default, src/sx9324.c:252-269, called by probe    *)
(* after the power-up reset.  pr_err's message is kept in out.             *)
(***************************************************************************)
\* the loop going on after a failed write
StopOnErrorNever(error) == FALSE

\* lines 262-266: if (error) { pr_err(...); break; }
StopOnError(error) == error # 0

Defaults_Enter(t) ==
    /\ \E d \in Devs : Enter(t, d, "defaults", "rd_write", 0)
    /\ UNCHANGED <<host, regmap, nirq_gpio, phdata, phdata_readback_lock, dumping_regs,
                   mode_set, faults>>

\* lines 259-267: one turn of the loop
RD_Write(t) ==
    LET l == th[t]
        e == sx9324_reg_defaults[l.i + 1]
    IN
    /\ l.pc = "rd_write"
    /\ \E r \in BusResults :
          LET l1 == [l EXCEPT !.error = r,
                              !.log = Logged(t, "w", e.reg, r, e.def),
                              !.out = IF r # 0
                                      THEN Append(l.out, [reg |-> e.reg, error |-> r])
                                      ELSE l.out]
          IN  /\ Fault(r)
              /\ regmap' = IF r = 0 THEN [regmap EXCEPT ![l.dev][e.reg] = e.def]
                           ELSE regmap
              /\ th' = [th EXCEPT ![t] =
                    IF StopOnError(r) \/ l.i + 1 >= Len(sx9324_reg_defaults)
                    THEN [l1 EXCEPT !.pc = "rd_ret"]
                    ELSE [l1 EXCEPT !.i = l.i + 1]]
    /\ mode_set' = [mode_set EXCEPT ![l.dev] = NoMode]
    /\ UNCHANGED <<host, nirq_gpio, phdata, phdata_readback_lock, dumping_regs, calls>>

\* line 268
RD_Return(t) ==
    /\ th[t].pc = "rd_ret"
    /\ th' = [th EXCEPT ![t].pc = "ret"]
    /\ UNCHANGED <<host, regmap, nirq_gpio, phdata, phdata_readback_lock, dumping_regs,
                   mode_set, calls, faults>>

(***************************************************************************)
(* The interrupt path, src/sx9324.c:720-743 and 769-774.  The handler      *)
(* queues the one work item of the device on the device's single-thread    *)
(* workqueue; queue_work leaves an item that is already pending as it is.  *)
(* The workqueue thread takes a pending item, clears its pending bit and   *)
(* runs sx9324_nirq_worker to its end before it takes the item again.      *)
(***************************************************************************)
\* a workqueue with a thread for every item taken
WorkerFreeAlways(wq) == TRUE

\* line 769, create_singlethread_workqueue: one item runs at a time
WorkerFree(wq) == Len(wq.execs) = 0

\* both regulators of the device are on
Powered(d) == \A r \in Rails : supply[d][r]

\* lines 737-743, invoked for a falling edge of NIRQ: the edge a responsive
\* chip made, or one the chip makes now.  On a workqueue that
\* was destroyed queue_work uses freed memory: the item is marked pending
\* or not, and no thread is left to run it
sx9324_nirq_handler(d) ==
    /\ nirq[d].requested
    /\ calls > 0
    /\ calls' = calls - 1
    /\ chip[d].responsive => chip[d].edge
    /\ chip' = [chip EXCEPT ![d].edge = FALSE]
    /\ nirq_gpio' = IF chip[d].responsive THEN nirq_gpio
                    ELSE [nirq_gpio EXCEPT ![d] = 0]
    /\ \E p \in (IF workqueue[d].alive THEN {TRUE} ELSE {nirq_work[d], TRUE}) :
          nirq_work' = [nirq_work EXCEPT ![d] = p]
    /\ nirq' = [nirq EXCEPT ![d].edges = @ + 1, ![d].handled = @ + 1]
    /\ UNCHANGED <<regmap, phdata, phdata_readback_lock, dumping_regs, th, mode_set,
                   faults, pullup_enabled, vdd_enabled, supply, rail_log, workqueue>>

\* the workqueue thread takes the pending item
WQ_Start(d) ==
    /\ workqueue[d].alive
    /\ nirq_work[d]
    /\ WorkerFree(workqueue[d])
    /\ nirq_work' = [nirq_work EXCEPT ![d] = FALSE]
    /\ workqueue' = [workqueue EXCEPT ![d].execs = Append(@, "read"),
                                      ![d].runs = @ + 1]
    /\ UNCHANGED <<regmap, nirq_gpio, phdata, phdata_readback_lock, dumping_regs, th,
                   mode_set, calls, faults, pullup_enabled, vdd_enabled, supply,
                   rail_log, nirq, chip>>

\* lines 720-735; a chip that answers the read may release NIRQ
sx9324_nirq_worker(d) ==
    LET wq == workqueue[d] IN
    /\ \E j \in 1 .. Len(wq.execs), r \in BusResults :
          /\ Fault(r)
          /\ \E v \in (IF r = 0 THEN LineAfterRead(d) ELSE {nirq_gpio[d]}) :
                nirq_gpio' = [nirq_gpio EXCEPT ![d] = v]
          /\ workqueue' = [workqueue EXCEPT
                ![d].execs = SubSeq(@, 1, j - 1) \o SubSeq(@, j + 1, Len(@)),
                ![d].log = Append(@, [k |-> "r", reg |-> SX9324_IRQ_SRC, r |-> r,
                                      v |-> 0, powered |-> Powered(d)])]
    /\ UNCHANGED <<regmap, phdata, phdata_readback_lock, dumping_regs, th, mode_set,
                   calls, pullup_enabled, vdd_enabled, supply, rail_log, nirq_work,
                   nirq, chip>>

(***************************************************************************)
(* sx9324_remove, src/sx9324.c:859-868.  destroy_workqueue returns when    *)
(* the queue is drained; the interrupt, requested with devm_, is released  *)
(* after sx9324_remove has returned.                                       *)
(***************************************************************************)
\* lines 859-863
Remove_Enter(t) ==
    /\ \E d \in Devs :
          /\ nirq[d].requested
          /\ Enter(t, d, "remove", "rm_vdd", 0)
    /\ UNCHANGED <<host, regmap, nirq_gpio, phdata, phdata_readback_lock, dumping_regs,
                   mode_set, faults>>

\* line 864
RM_Vdd(t) ==
    LET l == th[t] IN
    /\ l.pc = "rm_vdd"
    /\ \E r \in BusResults : sx9324_enable_vdd(l.dev, FALSE, r)
    /\ th' = [th EXCEPT ![t].pc = "rm_pullup"]
    /\ UNCHANGED <<regmap, nirq_gpio, phdata, phdata_readback_lock, dumping_regs,
                   mode_set, calls, workqueue, nirq_work, nirq, chip>>

\* line 865
RM_Pullup(t) ==
    LET l == th[t] IN
    /\ l.pc = "rm_pullup"
    /\ \E r \in BusResults : sx9324_enable_pullup(l.dev, FALSE, r)
    /\ th' = [th EXCEPT ![t].pc = "rm_destroy"]
    /\ UNCHANGED <<regmap, nirq_gpio, phdata, phdata_readback_lock, dumping_regs,
                   mode_set, calls, workqueue, nirq_work, nirq, chip>>

\* line 866: returns once no item is pending or running
RM_Destroy(t) ==
    LET l == th[t] IN
    /\ l.pc = "rm_destroy"
    /\ ~nirq_work[l.dev]
    /\ workqueue[l.dev].execs = <<>>
    /\ workqueue' = [workqueue EXCEPT ![l.dev].alive = FALSE]
    /\ th' = [th EXCEPT ![t].pc = "rm_ret"]
    /\ UNCHANGED <<regmap, nirq_gpio, phdata, phdata_readback_lock, dumping_regs,
                   mode_set, calls, faults, pullup_enabled, vdd_enabled, supply,
                   rail_log, nirq_work, nirq, chip>>

\* line 867, and the release of the interrupt that follows it
RM_Return(t) ==
    LET l == th[t] IN
    /\ l.pc = "rm_ret"
    /\ nirq' = [nirq EXCEPT ![l.dev].requested = FALSE]
    /\ th' = [th EXCEPT ![t].pc = "ret"]
    /\ UNCHANGED <<regmap, nirq_gpio, phdata, phdata_readback_lock, dumping_regs,
                   mode_set, calls, faults, pullup_enabled, vdd_enabled, supply,
                   rail_log, workqueue, nirq_work, chip>>

(***************************************************************************)
(* Concurrent reads of the phdata attribute, on one device or on two.      *)
(***************************************************************************)
Next ==
    \E t \in Threads :
        \/ PhdataShow_Enter(t)
        \/ RP_Invalidate(t)
        \/ RP_ReadEnable(t)
        \/ RP_Lock(t)
        \/ RP_Stat0(t)
        \/ RP_Stat1(t)
        \/ RP_Stat2(t)
        \/ RP_Select(t)
        \/ RP_ReadMsb(t)
        \/ RP_ReadLsb(t)
        \/ RP_Unlock(t)
        \/ PS_AfterRead(t)
        \/ PS_Print(t)
        \/ Return(t)

Spec == Init /\ [][Next]_vars

(***************************************************************************)
(* The phdata attribute read while the registers attribute is written.     *)
(***************************************************************************)
InitStore ==
    /\ regmap = [d \in Devs |-> ProbedRegs]
    /\ InitCommon
    /\ calls = MaxStoreCalls
    /\ faults = MaxStoreFaults

NextStore ==
    \E t \in Threads :
        \/ PhdataShow_Enter(t)
        \/ RP_Invalidate(t)
        \/ RP_ReadEnable(t)
        \/ RP_Lock(t)
        \/ RP_Stat0(t)
        \/ RP_Stat1(t)
        \/ RP_Stat2(t)
        \/ RP_Select(t)
        \/ RP_ReadMsb(t)
        \/ RP_ReadLsb(t)
        \/ RP_Unlock(t)
        \/ PS_AfterRead(t)
        \/ PS_Print(t)
        \/ RegistersStore_Enter(t)
        \/ ST_Write(t)
        \/ Return(t)

SpecStore == InitStore /\ [][NextStore]_vars

(***************************************************************************)
(* One thread setting and reading the mode, from any prior content of the  *)
(* two control registers.                                                  *)
(***************************************************************************)
SeqThreads == {1}

\* prior contents: every phase-enable field with two settings of the upper
\* bits; every doze period with the pause bit and two scan periods
Ctrl1Vals == {p + u : p \in {0, 1, 10, 15}, u \in {0, 32, 240}}
Ctrl0Vals == {32 * z + s + 128 * b : z \in 0 .. 3, s \in {5, 31}, b \in {0, 1}}

InitMode ==
    /\ \E c1 \in Ctrl1Vals, c0 \in Ctrl0Vals :
          regmap = [d \in Devs |-> [ProbedRegs EXCEPT ![SX9324_GNRL_CTRL_1] = c1,
                                                      ![SX9324_GNRL_CTRL_0] = c0]]
    /\ InitCommon
    /\ calls = MaxSeqCalls
    /\ faults = MaxSeqFaults

NextMode ==
    \E t \in SeqThreads :
        \/ SetMode_Enter(t)
        \/ SM_First(t)
        \/ SM_Second(t)
        \/ SM_Return(t)
        \/ GetMode_Enter(t)
        \/ GM_First(t)
        \/ GM_Second(t)
        \/ GM_Return(t)
        \/ Return(t)

SpecMode == InitMode /\ [][NextMode]_vars

(***************************************************************************)
(* One thread resetting the chip, with the chip driving the NIRQ line.     *)
(***************************************************************************)
InitReset ==
    /\ regmap = [d \in Devs |-> ProbedRegs]
    /\ InitHost
    /\ nirq_gpio \in [Devs -> {0, 1}]
    /\ phdata = [d \in Devs |-> [p \in Phases |-> ZeroPhase]]
    /\ phdata_readback_lock = NoThread
    /\ dumping_regs = REGISTER_UNSET_VALUE
    /\ th = [t \in Threads |-> IdleThread]
    /\ mode_set = [d \in Devs |-> NoMode]
    /\ calls = MaxSeqCalls
    /\ faults = MaxSeqFaults

NextReset ==
    \/ \E t \in SeqThreads :
        \/ Reset_Enter(t)
        \/ RS_Command(t)
        \/ RS_Gpio1(t)
        \/ RS_IrqSrc(t)
        \/ RS_Gpio2(t)
        \/ RS_Return(t)
        \/ Return(t)
    \/ \E d \in Devs : Chip_Assert(d)

SpecReset == InitReset /\ [][NextReset]_vars

(***************************************************************************)
(* The two rails switched in any order, from the zeroed flags of a newly   *)
(* allocated sx9324_data.                                                  *)
(***************************************************************************)
InitRail ==
    /\ regmap = [d \in Devs |-> ProbedRegs]
    /\ nirq_gpio = [d \in Devs |-> 1]
    /\ phdata = [d \in Devs |-> [p \in Phases |-> ZeroPhase]]
    /\ phdata_readback_lock = NoThread
    /\ dumping_regs = REGISTER_UNSET_VALUE
    /\ th = [t \in Threads |-> IdleThread]
    /\ mode_set = [d \in Devs |-> NoMode]
    /\ pullup_enabled = [d \in Devs |-> FALSE]
    /\ vdd_enabled = [d \in Devs |-> FALSE]
    /\ supply = [d \in Devs |-> [r \in Rails |-> FALSE]]
    /\ rail_log = <<>>
    /\ workqueue = [d \in Devs |-> IdleQueue]
    /\ nirq_work = [d \in Devs |-> FALSE]
    /\ nirq = [d \in Devs |-> ArmedIrq]
    /\ chip = [d \in Devs |-> AnyChip]
    /\ calls = MaxRailCalls
    /\ faults = MaxRailFaults

NextRail ==
    \/ Pullup_Call
    \/ Vdd_Call

SpecRail == InitRail /\ [][NextRail]_vars

(***************************************************************************)
(* One thread applying the software defaults to a chip whose registers     *)
(* hold none of them.                                                      *)
(***************************************************************************)
\* what every register holds before the defaults are applied
ResetVals == {0, 255}

InitDefaults ==
    /\ \E v \in ResetVals : regmap = [d \in Devs |-> [r \in StoredRegs |-> v]]
    /\ InitCommon
    /\ calls = MaxSeqCalls
    /\ faults = MaxSeqFaults

NextDefaults ==
    \E t \in SeqThreads :
        \/ Defaults_Enter(t)
        \/ RD_Write(t)
        \/ RD_Return(t)
        \/ Return(t)

SpecDefaults == InitDefaults /\ [][NextDefaults]_vars

(***************************************************************************)
(* Interrupt edges on probed devices, the worker, and the devices' removal *)
(***************************************************************************)
InitIrq ==
    /\ regmap = [d \in Devs |-> ProbedRegs]
    /\ InitCommon
    /\ calls = MaxIrqCalls
    /\ faults = MaxIrqFaults

NextIrq ==
    \/ \E d \in Devs :
        \/ sx9324_nirq_handler(d)
        \/ WQ_Start(d)
        \/ sx9324_nirq_worker(d)
    \/ \E t \in SeqThreads :
        \/ Remove_Enter(t)
        \/ RM_Vdd(t)
        \/ RM_Pullup(t)
        \/ RM_Destroy(t)
        \/ RM_Return(t)
        \/ Return(t)

SpecIrq == InitIrq /\ [][NextIrq]_vars

(***************************************************************************)
(* The store of a quantity for every pair of bytes the chip may return,    *)
(* and the store of the status flags for the values of the three status    *)
(* registers.  The thread is in sx9324_read_phdata, holds the mutex and    *)
(* has the bytes and the status registers in its locals.                   *)
(***************************************************************************)
Bytes == 0 .. 255

\* a call of thread 1 on device 1 about to store quantity q of phase i
AtStore(q, i, msb, lsb, s0, s1, s2) ==
    /\ regmap = [d \in Devs |-> ProbedRegs]
    /\ InitHost
    /\ nirq_gpio = [d \in Devs |-> 1]
    /\ phdata = [d \in Devs |-> [p \in Phases |-> ZeroPhase]]
    /\ phdata_readback_lock = 1
    /\ dumping_regs = REGISTER_UNSET_VALUE
    /\ th = [t \in Threads |->
               IF t = 1
               THEN [IdleThread EXCEPT !.pc = "rp_store", !.op = "phdata", !.q = q,
                                       !.i = i, !.msb = msb, !.lsb = lsb,
                                       !.stat0 = s0, !.stat1 = s1, !.stat2 = s2]
               ELSE IdleThread]
    /\ mode_set = [d \in Devs |-> NoMode]
    /\ calls = 0
    /\ faults = 0

InitWord ==
    \E q \in 0 .. 2, msb \in Bytes, lsb \in Bytes : AtStore(q, 0, msb, lsb, 0, 0, 0)

NextWord == \E t \in SeqThreads : RP_Store(t)

SpecWord == InitWord /\ [][NextWord]_vars

\* every value of one status register with the other two all zeros or all ones
StatTriples ==
    {[r \in 0 .. 2 |-> IF r = k THEN v ELSE e[r]] :
        k \in 0 .. 2, v \in Bytes, e \in [0 .. 2 -> {0, 255}]}

InitStat ==
    \E i \in Phases, s \in StatTriples : AtStore(2, i, 0, 0, s[0], s[1], s[2])

NextStat == \E t \in SeqThreads : RP_Store(t)

SpecStat == InitStat /\ [][NextStat]_vars

(***************************************************************************)
(* Concurrent reads of the phdata attribute under fair scheduling: a       *)
(* thread inside sx9324_read_phdata goes on running, every bus transaction *)
(* returns, and a thread that waits in mutex_lock gets the mutex when it   *)
(* is released again and again (the kernel mutex hands the lock over to    *)
(* its waiters).                                                           *)
(***************************************************************************)
InitLive ==
    /\ regmap = [d \in Devs |-> ProbedRegs]
    /\ InitCommon
    /\ calls = MaxLiveCalls
    /\ faults = MaxLiveFaults

\* the steps of sx9324_read_phdata that do not wait
Running(t) ==
    \/ RP_Invalidate(t)
    \/ RP_ReadEnable(t)
    \/ RP_Stat0(t)
    \/ RP_Stat1(t)
    \/ RP_Stat2(t)
    \/ RP_Select(t)
    \/ RP_ReadMsb(t)
    \/ RP_ReadLsb(t)
    \/ RP_Unlock(t)

Fairness == \A t \in Threads : WF_vars(Running(t)) /\ SF_vars(RP_Lock(t))

SpecLive == InitLive /\ [][Next]_vars /\ Fairness

(***************************************************************************)
(* The resets of responsive chips with the interrupt armed, as probe arms  *)
(* it at line 800 before the power-up reset of line 831.  A device is      *)
(* either just powered up, its chip holding NIRQ low, or was probed and    *)
(* has NIRQ high.  No bus transaction fails.                               *)
(***************************************************************************)
\* a chip after power-up, and the chip of a probed device
FreshChip == [responsive |-> TRUE, powerup |-> TRUE, edge |-> TRUE]
ProbedChip == [responsive |-> TRUE, powerup |-> FALSE, edge |-> FALSE]

InitResetIrq ==
    /\ regmap = [d \in Devs |-> ProbedRegs]
    /\ \E fresh \in [Devs -> BOOLEAN] :
          /\ chip = [d \in Devs |-> IF fresh[d] THEN FreshChip ELSE ProbedChip]
          /\ nirq_gpio = [d \in Devs |-> IF fresh[d] THEN 0 ELSE 1]
    /\ pullup_enabled = [d \in Devs |-> TRUE]
    /\ vdd_enabled = [d \in Devs |-> TRUE]
    /\ supply = [d \in Devs |-> [r \in Rails |-> TRUE]]
    /\ rail_log = <<>>
    /\ workqueue = [d \in Devs |-> IdleQueue]
    /\ nirq_work = [d \in Devs |-> FALSE]
    /\ nirq = [d \in Devs |-> ArmedIrq]
    /\ phdata = [d \in Devs |-> [p \in Phases |-> ZeroPhase]]
    /\ phdata_readback_lock = NoThread
    /\ dumping_regs = REGISTER_UNSET_VALUE
    /\ th = [t \in Threads |-> IdleThread]
    /\ mode_set = [d \in Devs |-> NoMode]
    /\ calls = MaxResetIrqCalls
    /\ faults = 0

NextResetIrq ==
    \/ \E t \in SeqThreads :
        \/ PowerUpReset_Enter(t)
        \/ SoftwareReset_Enter(t)
        \/ RS_Command(t)
        \/ RS_Gpio1(t)
        \/ RS_IrqSrc(t)
        \/ RS_Gpio2(t)
        \/ RS_Return(t)
        \/ Return(t)
    \/ \E d \in Devs :
        \/ sx9324_nirq_handler(d)
        \/ WQ_Start(d)
        \/ sx9324_nirq_worker(d)

SpecResetIrq == InitResetIrq /\ [][NextResetIrq]_vars

(***************************************************************************)
(* Properties.                                                             *)
(***************************************************************************)
\* the words the chip holds for phase i of device d, as the driver stores them
ChipWord(d, i, q) == ToShort(ChipMsb(d, i, q), ChipLsb(d, i, q))

\* the call of thread t has returned from sx9324_read_phdata in this step
ReadPhdataReturns(t) == th[t].pc # "rp_ret" /\ th'[t].pc = "rp_ret"

\* thread t issued a phase-select write and has more accesses to issue
InSpan(t) ==
    /\ th[t].op = "phdata_show"
    /\ th[t].pc \in {"rp_sel", "rp_msb", "rp_lsb"}
    /\ \E k \in 1 .. Len(th[t].log) : th[t].log[k].reg = SX9324_PHASE_SEL

\* thread u issues a phase-select write or a data register read in this step
IssuesPhaseAccess(u) ==
    /\ th[u].op = "phdata_show"
    /\ Len(th'[u].log) = Len(th[u].log) + 1
    /\ th'[u].log[Len(th'[u].log)].reg \in {SX9324_PHASE_SEL} \cup MeasRegs

\* C1: between the first phase-select write of one sx9324_read_phdata call and
\* its last data register read, no other call issues a phase-select write or
\* a data register read, on the same device or on another
C1_ExclusiveSpan ==
    [][\A t \in Threads, u \in Threads :
          (t # u /\ InSpan(t)) => ~IssuesPhaseAccess(u)]_vars

\* C1 witness: a call is inside its span while a call on another device,
\* with phases to read, waits for the lock
C1_Witness ==
    \E t \in Threads, u \in Threads :
        /\ t # u
        /\ InSpan(t)
        /\ th[u].pc = "rp_lock"
        /\ BitAnd(th[u].val, SX9324_PHEN) # 0
        /\ th[u].dev # th[t].dev

\* C2: every entry marked valid holds the words read while the phase-select
\* register held the entry's own index, whatever the other handlers do
C2_ValidEntryOfOwnPhase ==
    \A d \in Devs, i \in Phases :
        phdata[d][i].is_valid =>
            /\ phdata[d][i].proxuseful = ChipWord(d, i, 0)
            /\ phdata[d][i].proxavg = ChipWord(d, i, 1)
            /\ phdata[d][i].proxdiff = ChipWord(d, i, 2)

\* the phases a handler printed
PrintedPhases(t) == {th[t].out[k].ph : k \in 1 .. Len(th[t].out)}

EnabledPhases(val) == {i \in Phases : Bit(val, i) = 1}

\* the valid phases a completed acquisition with enable register val can
\* leave: the enabled phases below the phase it stopped at
CompletedResults(val) ==
    {{i \in EnabledPhases(val) : i < k} : k \in 0 .. SX9324_PHASES}

\* C3: a handler that read the array after its own sx9324_read_phdata
\* returned has seen the valid phases of one completed acquisition (the
\* enable register of a device does not change while only phdata is read)
C3_WholeSnapshotSeen ==
    \A t \in Threads :
        (th[t].op = "phdata_show" /\ th[t].pc = "ret" /\ th[t].error = 0) =>
            PrintedPhases(t) \in
                CompletedResults(regmap[th[t].dev][SX9324_GNRL_CTRL_1])

\* C4: when a sx9324_read_phdata call that read the enable register returns,
\* every entry marked valid is of a phase enabled in the value it read
C4_ValidOnlyIfEnabled ==
    [][\A t \in Threads :
          (ReadPhdataReturns(t) /\ th'[t].log[1].r = 0) =>
              \A i \in Phases :
                  phdata'[th[t].dev][i].is_valid => Bit(th'[t].val, i) = 1]_vars

\* the three measurement fields of an entry
Meas(e) == <<e.proxuseful, e.proxavg, e.proxdiff>>

\* C5 as stated: when a sx9324_read_phdata call returns, every entry marked
\* invalid has its three measurement fields at zero
C5_InvalidEntriesZero ==
    [][\A t \in Threads :
          ReadPhdataReturns(t) =>
              \A i \in Phases :
                  ~phdata'[th[t].dev][i].is_valid =>
                      Meas(phdata'[th[t].dev][i]) = <<0, 0, 0>>]_vars

\* C5 amended: the measurement fields of an entry change only by the store
\* of a call that reads that phase, enabled in the enable register the call
\* read; invalidation and every other step leave them as they are, so an
\* invalid entry holds zero or what such a call stored earlier
C5_FieldsOnlyStoredWhenEnabled ==
    [][\A d \in Devs, i \in Phases :
          Meas(phdata'[d][i]) # Meas(phdata[d][i]) =>
              \E t \in Threads :
                  /\ th[t].pc = "rp_lsb"
                  /\ th[t].dev = d
                  /\ th[t].i = i
                  /\ Bit(th[t].val, i) = 1]_vars

\* C5 witness: a call has returned and left an invalid entry whose useful
\* field is not zero
C5_Witness ==
    \E t \in Threads, i \in Phases :
        /\ th[t].pc = "rp_ret"
        /\ ~phdata[th[t].dev][i].is_valid
        /\ phdata[th[t].dev][i].proxuseful # 0

\* C6: sx9324_get_mode returning 0 after a sx9324_set_mode that returned 0
\* gives the mode that was set, from every prior content of the two control
\* registers; the fields then hold the values of the default table
C6_ModeRoundTrip ==
    \A t \in Threads :
        LET d == th[t].dev IN
        /\ (th[t].pc = "gm_ret" /\ th[t].error = 0 /\ mode_set[d] \in Modes) =>
               th[t].mode = mode_set[d]
        /\ (th[t].pc = "sm_ret" /\ th[t].error = 0
                /\ th[t].arg \in {SX9324_ACTIVE, SX9324_DOZE}) =>
               /\ BitAnd(regmap[d][SX9324_GNRL_CTRL_1], SX9324_PHEN) = BitAnd(33, SX9324_PHEN)
               /\ th[t].arg = SX9324_DOZE =>
                      BitAnd(regmap[d][SX9324_GNRL_CTRL_0], SX9324_DOZEPERIOD)
                          = BitAnd(69, SX9324_DOZEPERIOD)

\* C6 witness: get_mode has returned 0 after set_mode(Doze) returned 0
C6_Witness ==
    \E t \in Threads :
        /\ th[t].pc = "gm_ret"
        /\ th[t].error = 0
        /\ mode_set[th[t].dev] = SX9324_DOZE

\* C7: set_mode(Active) and set_mode(Doze) issue both updates, the
\* phase-enable field first, whatever the first returns; the call fails
\* exactly when one of the two failed; the first update stays when the second
\* fails
C7_BothWritesAttempted ==
    \A t \in Threads :
        (th[t].pc = "sm_ret" /\ th[t].arg \in {SX9324_ACTIVE, SX9324_DOZE}) =>
            LET lg == th[t].log IN
            /\ Len(lg) = 2
            /\ lg[1].k = "u" /\ lg[1].reg = SX9324_GNRL_CTRL_1
            /\ lg[2].k = "u" /\ lg[2].reg = SX9324_GNRL_CTRL_0
            /\ (th[t].error # 0) <=> (lg[1].r # 0 \/ lg[2].r # 0)
            /\ (lg[1].r = 0 /\ lg[2].r # 0) =>
                   BitAnd(regmap[th[t].dev][SX9324_GNRL_CTRL_1], SX9324_PHEN)
                       = BitAnd(33, SX9324_PHEN)

\* C7 witness: the first update failed, the second was issued and succeeded
C7_Witness ==
    \E t \in Threads :
        /\ th[t].pc = "sm_ret"
        /\ th[t].arg \in {SX9324_ACTIVE, SX9324_DOZE}
        /\ Len(th[t].log) = 2
        /\ th[t].log[1].r # 0
        /\ th[t].log[2].r = 0

\* C8: set_mode with a value that is no mode returns -EINVAL, issues no bus
\* transaction and changes no register
C8_UnknownModeTouchesNothing ==
    /\ [](\A t \in Threads :
            (th[t].pc = "sm_ret" /\ th[t].arg \notin Modes) =>
                (th[t].error = -EINVAL /\ th[t].log = <<>>))
    /\ [][\A t \in Threads :
            (th[t].op = "set_mode" /\ th[t].arg \notin Modes) =>
                regmap' = regmap]_vars

\* C8 witness: set_mode has returned for a value that is no mode
C8_Witness ==
    \E t \in Threads : th[t].pc = "sm_ret" /\ th[t].arg \notin Modes

\* the place of the first line read in an access log, or 0
FirstGpio(lg) ==
    IF \E k \in 1 .. Len(lg) : lg[k].k = "g"
    THEN CHOOSE k \in 1 .. Len(lg) :
            lg[k].k = "g" /\ \A j \in 1 .. (k - 1) : lg[j].k # "g"
    ELSE 0

\* the active-low line is asserted when it is low
LineAsserted(v) == v = 0

\* what sx9324_reset does after the first line read, given that the level
\* `stop` ends it and the level `go` is needed for the status read
ReadinessRule(stop, go) ==
    \A t \in Threads :
        LET lg == th[t].log
            g  == FirstGpio(lg)
        IN  (th[t].op = "reset" /\ g > 0) =>
                /\ lg[g].v = stop =>
                       /\ Len(lg) = g
                       /\ th[t].pc \in {"rs_ret", "ret"}
                       /\ th[t].error = -ENODEV
                /\ (\E k \in 1 .. Len(lg) : lg[k].reg = SX9324_IRQ_SRC) =>
                       lg[g].v = go

\* C9 as stated: the line read asserted (low) at the first check ends the
\* reset with -ENODEV and no further access; the interrupt source register
\* is read only when the line read inactive (high)
C9_AssertedLineNotReady == ReadinessRule(0, 1)

\* C9 amended: the line read inactive (high) at the first check ends the
\* reset with -ENODEV and no further access; the interrupt source register
\* is read only when the line read asserted (low)
C9_InactiveLineNotReady == ReadinessRule(1, 0)

\* C9 witness: a reset ended at the first check, which read the line high
C9_Witness ==
    \E t \in Threads :
        /\ th[t].op = "reset"
        /\ th[t].pc = "rs_ret"
        /\ FirstGpio(th[t].log) = Len(th[t].log)
        /\ ~LineAsserted(th[t].log[Len(th[t].log)].v)
        /\ th[t].error = -ENODEV

\* C10: a software reset writes the command, reads the line, reads the
\* interrupt source register once, reads the line again, and ends at the
\* first step that fails: a failed command write is returned with nothing
\* read, and 0 is returned only when the second line read found the line
\* released, -ENODEV when it did not
C10_SoftwareResetOrder ==
    \A t \in Threads :
        (th[t].op = "reset" /\ th[t].arg = SOFTWARE_RESET /\ th[t].pc = "rs_ret") =>
            LET lg == th[t].log
                n  == Len(lg)
            IN
            /\ n \in 1 .. 4
            /\ lg[1].k = "w" /\ lg[1].reg = SX9324_RESET /\ lg[1].v = ResetCommand
            /\ lg[1].r # 0 => (n = 1 /\ th[t].error = lg[1].r)
            /\ n >= 2 => (lg[2].k = "g" /\ lg[1].r = 0)
            /\ n >= 3 => (lg[3].k = "r" /\ lg[3].reg = SX9324_IRQ_SRC)
            /\ (n = 3) => (lg[3].r # 0 /\ th[t].error = lg[3].r)
            /\ n = 4 => (lg[4].k = "g" /\ lg[3].r = 0)
            /\ th[t].error = 0 => (n = 4 /\ ~LineAsserted(lg[4].v))
            /\ (n = 4 /\ LineAsserted(lg[4].v)) => th[t].error = -ENODEV

\* C10 witness: a software reset went through its four steps and returned 0
C10_Witness ==
    \E t \in Threads :
        /\ th[t].op = "reset"
        /\ th[t].arg = SOFTWARE_RESET
        /\ th[t].pc = "rs_ret"
        /\ Len(th[t].log) = 4
        /\ th[t].error = 0

\* the calls made on one rail of one device, in order
RailCalls(d, rail) == SelectSeq(rail_log, LAMBDA e : e.dev = d /\ e.rail = rail)

\* the regulator transactions a call issued
Transactions(e) == IF e.called THEN 1 ELSE 0

\* C11 as stated: two consecutive calls on a rail with the same request
\* issue at most one regulator transaction between them, even when the
\* regulator fails
C11_AtMostOneTransaction ==
    \A d \in Devs, rail \in Rails :
        LET c == RailCalls(d, rail) IN
        \A k \in 1 .. Len(c) - 1 :
            c[k].on = c[k + 1].on =>
                Transactions(c[k]) + Transactions(c[k + 1]) <= 1

\* C11 amended: two consecutive calls on a rail with the same request issue
\* at most one regulator transaction between them unless the first call's
\* transaction failed; the second call issues one only as the retry of a
\* failed first
C11_OneTransactionUnlessFailed ==
    \A d \in Devs, rail \in Rails :
        LET c == RailCalls(d, rail) IN
        \A k \in 1 .. Len(c) - 1 :
            c[k].on = c[k + 1].on =>
                /\ c[k].error = 0 =>
                      Transactions(c[k]) + Transactions(c[k + 1]) <= 1
                /\ c[k + 1].called => c[k].called /\ c[k].error # 0

\* a rail was switched by a call and the same request made again
C11_Witness ==
    \E d \in Devs, rail \in Rails :
        LET c == RailCalls(d, rail) IN
        \E k \in 1 .. Len(c) - 1 :
            /\ c[k].on = c[k + 1].on
            /\ c[k].called /\ c[k].error = 0
            /\ ~c[k + 1].called

\* C12: the regulator is called only when the shadow flag differs from the
\* request, a failed call leaves the flag as it was, every flag equals what
\* the last successful regulator call on its rail did (disabled before the
\* first), and a call changes no flag but that of its own rail
C12_ShadowFollowsRegulator ==
    /\ [](/\ \A d \in Devs, rail \in Rails : Shadow(d, rail) = supply[d][rail]
          /\ \A k \in 1 .. Len(rail_log) :
                LET e == rail_log[k] IN
                /\ e.called => e.before # e.on
                /\ e.error # 0 => e.after = e.before
                /\ e.called /\ e.error = 0 => e.after = e.on)
    /\ [][rail_log' # rail_log =>
            LET e == rail_log'[Len(rail_log')] IN
            /\ pullup_enabled' # pullup_enabled =>
                  /\ e.rail = "pullup"
                  /\ \A d \in Devs \ {e.dev} : pullup_enabled'[d] = pullup_enabled[d]
            /\ vdd_enabled' # vdd_enabled =>
                  /\ e.rail = "vdd"
                  /\ \A d \in Devs \ {e.dev} : vdd_enabled'[d] = vdd_enabled[d]]_vars

\* a regulator call failed with the rail off, and a later call on the same
\* rail switched it on
C12_Witness ==
    \E d \in Devs, rail \in Rails :
        LET c == RailCalls(d, rail) IN
        \E j, k \in 1 .. Len(c) :
            /\ j < k
            /\ c[j].called /\ c[j].error # 0 /\ c[j].after = FALSE
            /\ c[k].called /\ c[k].error = 0 /\ c[k].after = TRUE
            /\ Shadow(d, rail) = TRUE

\* the accesses of the log are the writes of the first entries of the
\* table, in table order, with the table's values
TablePrefix(lg) ==
    /\ Len(lg) <= Len(sx9324_reg_defaults)
    /\ \A j \in 1 .. Len(lg) :
          /\ lg[j].k = "w"
          /\ lg[j].reg = sx9324_reg_defaults[j].reg
          /\ lg[j].v = sx9324_reg_defaults[j].def

C14_NoWorkerReadAfterRailOff ==
    \A d \in Devs :
        \A k \in 1 .. Len(workqueue[d].log) : workqueue[d].log[k].powered

\* C15: the handler touches no register, queues the work item and reports
\* every edge as handled; at most one execution of a device's worker is in
\* progress; every execution makes one access, a read of the interrupt
\* source register, whether the read fails or not
C15_HandlerHandsOffWorkerAlone ==
    /\ [](\A d \in Devs :
            LET wq == workqueue[d] IN
            /\ Len(wq.execs) <= 1
            /\ Len(wq.log) = wq.runs - Len(wq.execs)
            /\ \A k \in 1 .. Len(wq.log) :
                  wq.log[k].k = "r" /\ wq.log[k].reg = SX9324_IRQ_SRC
            /\ nirq[d].handled = nirq[d].edges)
    /\ [][\A d \in Devs :
            /\ nirq'[d].edges # nirq[d].edges =>
                  /\ regmap' = regmap
                  /\ workqueue' = workqueue
                  /\ th' = th
                  /\ workqueue[d].alive => nirq_work'[d]
            /\ workqueue'[d].log # workqueue[d].log => regmap' = regmap]_vars

\* an edge arrived while the worker of the device was running, after an
\* execution whose read failed
C15_Witness ==
    \E d \in Devs :
        /\ Len(workqueue[d].execs) = 1
        /\ nirq_work[d]
        /\ workqueue[d].runs = 2
        /\ workqueue[d].log[1].r # 0

\* the 16-bit word of two bytes read as two's complement
TwosComplement(msb, lsb) ==
    LET v == msb * 256 + lsb IN IF v < 32768 THEN v ELSE v - 65536

\* the measurement field that holds quantity q
Quantity(e, q) ==
    CASE q = 0 -> e.proxuseful
      [] q = 1 -> e.proxavg
      [] OTHER -> e.proxdiff

\* C16: for every pair of bytes the stored useful, average and difference
\* value is the 16-bit word msb * 256 + lsb read as two's complement, and
\* lies in -32768 .. 32767
C16_SignedReconstruction ==
    \A t \in Threads :
        LET l == th[t]
            x == Quantity(phdata[l.dev][l.i], l.q)
        IN  l.pc = "rp_stored" =>
              /\ x = TwosComplement(l.msb, l.lsb)
              /\ x \in -32768 .. 32767
              /\ l.msb = 255 /\ l.lsb = 255 => x = -1
              /\ l.msb = 0 /\ l.lsb = 1 => x = 1
              /\ l.msb = 128 /\ l.lsb = 0 => x = -32768

\* the bytes 0x80, 0x00 were stored as the difference
C16_Witness ==
    \E t \in Threads :
        /\ th[t].pc = "rp_stored"
        /\ th[t].msb = 128 /\ th[t].lsb = 0 /\ th[t].q = 2
        /\ phdata[th[t].dev][th[t].i].proxdiff = -32768

\* bit n of a register value, counted by halving
RECURSIVE BitOf(_, _)
BitOf(v, n) == IF n = 0 THEN v % 2 ELSE BitOf(v \div 2, n - 1)

\* C17: for every phase i and every value of the status registers, prox
\* and steady are bits i and i + 4 of status 0, body and table bits i and
\* i + 4 of status 1, comp and fail bits i and i + 4 of status 2
C17_StatusDecoding ==
    \A t \in Threads :
        LET l == th[t]
            f == phdata[l.dev][l.i].stat
        IN  l.pc = "rp_stored" /\ l.q = 2 =>
              /\ f.prox = BitOf(l.stat0, l.i)
              /\ f.steady = BitOf(l.stat0, l.i + 4)
              /\ f.body = BitOf(l.stat1, l.i)
              /\ f.table = BitOf(l.stat1, l.i + 4)
              /\ f.comp = BitOf(l.stat2, l.i)
              /\ f.fail = BitOf(l.stat2, l.i + 4)
              /\ l.stat0 = 17 /\ l.i = 0 => f.prox = 1 /\ f.steady = 1
              /\ l.stat0 = 17 /\ l.i > 0 => f.prox = 0

\* status 0 = 0b0001_0001 with the other two zero was decoded for phase 0
C17_Witness ==
    \E t \in Threads :
        /\ th[t].pc = "rp_stored"
        /\ th[t].stat0 = 17 /\ th[t].stat1 = 0 /\ th[t].stat2 = 0 /\ th[t].i = 0
        /\ phdata[th[t].dev][0].stat.prox = 1
        /\ phdata[th[t].dev][0].stat.steady = 1
        /\ phdata[th[t].dev][0].stat.table = 0

\* the upper four bits of the phase-enable register
UpperBits(v) == v \div 16

\* the scan-period bits and the pause bit of the scan-timing register
ScanBits(v) == v % 32
PauseBit(v) == v \div 128

\* C18: set_mode changes only the fields it names: no register but the two
\* control registers, of the phase-enable register only the phase-enable
\* field, of the scan-timing register only the doze period, and nothing of
\* the scan-timing register when the mode is sleep
C18_SetModeFrame ==
    [][\A t \in Threads :
          th[t].op = "set_mode" /\ th'[t] # th[t] =>
              \A d \in Devs :
                  LET old == regmap[d]
                      new == regmap'[d]
                  IN  /\ d # th[t].dev => new = old
                      /\ \A r \in StoredRegs \ {SX9324_GNRL_CTRL_0, SX9324_GNRL_CTRL_1} :
                            new[r] = old[r]
                      /\ UpperBits(new[SX9324_GNRL_CTRL_1]) =
                            UpperBits(old[SX9324_GNRL_CTRL_1])
                      /\ ScanBits(new[SX9324_GNRL_CTRL_0]) =
                            ScanBits(old[SX9324_GNRL_CTRL_0])
                      /\ PauseBit(new[SX9324_GNRL_CTRL_0]) =
                            PauseBit(old[SX9324_GNRL_CTRL_0])
                      /\ th[t].arg = SX9324_SLEEP =>
                            new[SX9324_GNRL_CTRL_0] = old[SX9324_GNRL_CTRL_0]]_vars

\* set_mode(Doze) has written both fields of a device whose registers had
\* the upper bits, the pause bit and all scan-period bits set
C18_Witness ==
    \E t \in Threads :
        LET l == th[t] IN
        /\ l.op = "set_mode" /\ l.pc = "sm_ret"
        /\ l.arg = SX9324_DOZE /\ l.error = 0
        /\ regmap[l.dev][SX9324_GNRL_CTRL_1] = 240 + 1
        /\ regmap[l.dev][SX9324_GNRL_CTRL_0] = 128 + 64 + 31

\* the call of thread t that returns in this step read an enable register
\* with no phase enabled
ReturnsWithEmptyMask(t) ==
    /\ ReadPhdataReturns(t)
    /\ th'[t].log[1].r = 0
    /\ BitAnd(th'[t].val, SX9324_PHEN) = 0

\* C19: a sx9324_read_phdata call that read an enable register with no
\* phase enabled has made that one read and no other access, returns 0
\* with all four entries invalid and does not hold the mutex
C19_EmptyMaskAllInvalid ==
    [][\A t \in Threads :
          ReturnsWithEmptyMask(t) =>
              /\ Len(th'[t].log) = 1
              /\ th'[t].log[1].k = "r"
              /\ th'[t].log[1].reg = SX9324_GNRL_CTRL_1
              /\ th'[t].error = 0
              /\ phdata_readback_lock' # t
              /\ \A i \in Phases : ~phdata'[th[t].dev][i].is_valid]_vars

\* the phase a call was processing at its last access: the phase of its
\* last phase-select write, phase 0 before the first
RECURSIVE PhaseAt(_)
PhaseAt(lg) ==
    IF lg = <<>> THEN 0
    ELSE IF lg[Len(lg)].reg = SX9324_PHASE_SEL THEN lg[Len(lg)].v
    ELSE PhaseAt(SubSeq(lg, 1, Len(lg) - 1))

\* C20: when a sx9324_read_phdata call returns an error from an access
\* made for phase k (k = 0 for the enable and status reads), it does not
\* hold the mutex, phase k and the phases above it are invalid, and the
\* valid entries are of enabled phases below k
C20_FailureLeavesRestInvalid ==
    [][\A t \in Threads :
          (ReadPhdataReturns(t) /\ th'[t].error # 0) =>
              LET k == PhaseAt(th'[t].log) IN
              /\ phdata_readback_lock' # t
              /\ \A i \in Phases :
                    /\ i >= k => ~phdata'[th[t].dev][i].is_valid
                    /\ phdata'[th[t].dev][i].is_valid =>
                          i < k /\ Bit(th'[t].val, i) = 1]_vars

\* the index of the first failed access of a log, 0 when none failed
RECURSIVE FirstFailure(_, _)
FirstFailure(lg, j) ==
    IF j > Len(lg) THEN 0
    ELSE IF lg[j].r # 0 THEN j
    ELSE FirstFailure(lg, j + 1)

\* C21 as stated: a sx9324_read_phdata call issues no register access after
\* its first failed one
C21_NoAccessAfterFailure ==
    \A t \in Threads :
        th[t].op = "phdata_show" =>
            LET f == FirstFailure(th[t].log, 1)
            IN  f # 0 => Len(th[t].log) = f

\* the accesses that may follow a failed access of register reg: the status
\* reads left after a failed status read, the LSB read after a failed MSB
\* read, none after any other
AfterFailed(reg) ==
    CASE reg = SX9324_STAT_0 -> <<SX9324_STAT_1, SX9324_STAT_2>>
      [] reg = SX9324_STAT_1 -> <<SX9324_STAT_2>>
      [] reg \in {SX9324_USE_MSB, SX9324_AVG_MSB, SX9324_DIFF_MSB} -> <<reg + 1>>
      [] OTHER -> <<>>

\* C21 amended: after its first failed access a sx9324_read_phdata call
\* issues only the reads that complete the group of the failed one (the
\* remaining status reads, or the LSB read of the failed MSB read) and then
\* no other access: no phase-select write and no read of another quantity
C21_OnlyGroupFinishedAfterFailure ==
    \A t \in Threads :
        th[t].op = "phdata_show" =>
            LET lg == th[t].log
                f  == FirstFailure(lg, 1)
            IN  f # 0 =>
                  LET rest == AfterFailed(lg[f].reg) IN
                  /\ Len(lg) - f <= Len(rest)
                  /\ \A j \in 1 .. Len(lg) - f :
                        lg[f + j].k = "r" /\ lg[f + j].reg = rest[j]
                  /\ th[t].pc \in {"rp_unlock", "rp_ret", "ret"} =>
                        /\ Len(lg) - f = Len(rest)
                        /\ th[t].error # 0

\* a call returned after a failed MSB read of the average and the LSB read
\* that followed it
C21_Witness ==
    \E t \in Threads :
        LET lg == th[t].log IN
        /\ th[t].op = "phdata_show" /\ th[t].pc = "rp_ret"
        /\ Len(lg) >= 2
        /\ lg[Len(lg) - 1].reg = SX9324_AVG_MSB /\ lg[Len(lg) - 1].r # 0
        /\ lg[Len(lg)].reg = SX9324_AVG_LSB /\ lg[Len(lg)].r = 0

\* thread t is inside sx9324_read_phdata
InReadPhdata(t) ==
    /\ th[t].op = "phdata_show"
    /\ th[t].pc \in {"rp_inval", "rp_en", "rp_lock", "rp_stat0", "rp_stat1",
                     "rp_stat2", "rp_sel", "rp_msb", "rp_lsb", "rp_unlock"}

\* C22: under fair scheduling every sx9324_read_phdata call returns; a call
\* that has returned, with 0 or with an error, does not hold the mutex; and
\* the mutex is released only by the call that holds it
C22_EveryCallReturnsUnlocked ==
    /\ \A t \in Threads : InReadPhdata(t) ~> (th[t].pc = "rp_ret")
    /\ [](\A t \in Threads :
            phdata_readback_lock = t => InReadPhdata(t) /\ th[t].pc # "rp_lock")
    /\ [][\A t \in Threads :
            (th[t].pc = "rp_unlock" /\ th'[t].pc # "rp_unlock") =>
                phdata_readback_lock = t /\ phdata_readback_lock' = NoThread]_vars

\* a call that failed inside the critical section has returned while
\* another call waits for the mutex it released
C22_Witness ==
    \E t \in Threads, u \in Threads :
        /\ t # u
        /\ th[t].pc = "rp_ret" /\ th[t].error # 0 /\ Len(th[t].log) > 1
        /\ th[u].pc = "rp_lock" /\ th[u].op = "phdata_show"
        /\ phdata_readback_lock = NoThread

\* C23 as stated: with responsive chips and the worker armed, every
\* power-up reset and every software reset returns 0, however its steps
\* interleave with the handler and the worker
C23_ResetSucceedsWithWorker ==
    \A t \in Threads :
        (th[t].op = "reset" /\ th[t].pc = "rs_ret") => th[t].error = 0

====
